---- MODULE Spec2Model ----
(***************************************************************************)
(* generateReactFlowData of src/components/planner/plannerFlowUtils.tsx:   *)
(* the expansion of ore_excavator nodes into one node per ore source, the  *)
(* distribution of the base edges over the expanded nodes and the assembly *)
(* of the returned graph with its duplicate-edge check.                    *)
(*                                                                         *)
(* JavaScript numbers are IEEE 754 doubles and every arithmetic operation  *)
(* rounds as the language does.  Array indices are zero-based as in the    *)
(* source; the arrays themselves are TLA+ sequences, so the element with   *)
(* index i is the (i+1)-th element of the sequence.  Each forEach loop is  *)
(* one action, the last one together with the return statement; an         *)
(* exception thrown in a loop ends the call in pc = "threw".               *)
(* The target amount (lines 55-56) only reaches buildProductionFlow, whose *)
(* result is an input here, and the coordinates computed by dagre only     *)
(* reach the positions of the returned nodes; neither is in the model.     *)
(***************************************************************************)
EXTENDS Integers, Sequences, FiniteSets, TLC

VARIABLES pc, oreSourcesByItem, oreQualityByItem, flowNodes, flowEdges,
          expandedNodes, nodeKeyToExpandedIndexes, expandedEdges,
          dagreNodes, dagreEdges, totalPowerConsumption, reactFlowNodes,
          reactFlowEdges, edgeIdSet, discarded, result

vars == <<pc, oreSourcesByItem, oreQualityByItem, flowNodes, flowEdges,
          expandedNodes, nodeKeyToExpandedIndexes, expandedEdges,
          dagreNodes, dagreEdges, totalPowerConsumption, reactFlowNodes,
          reactFlowEdges, edgeIdSet, discarded, result>>

(***************************************************************************)
(* Bounds of the checked inputs.                                           *)
(***************************************************************************)
MaxNodes == 2
MaxEdges == 2
MaxSources == 3

(***************************************************************************)
(* Natural numbers of any size: sequences of limbs, least significant      *)
(* first, without a most significant zero limb; <<>> is 0.                 *)
(***************************************************************************)
LimbBits == 15

Limb == 2^LimbBits

Pow2(k) == 2^k

RECURSIVE BigOf(_)
BigOf(n) == IF n = 0 THEN <<>> ELSE <<n % Limb>> \o BigOf(n \div Limb)

RECURSIVE Trim(_)
Trim(a) ==
    IF a = <<>> THEN a
    ELSE IF a[Len(a)] = 0 THEN Trim(SubSeq(a, 1, Len(a) - 1)) ELSE a

Rest(a) == IF a = <<>> THEN a ELSE Tail(a)

Low(a) == IF a = <<>> THEN 0 ELSE a[1]

RECURSIVE BigAddC(_, _, _)
BigAddC(a, b, carry) ==
    IF a = <<>> /\ b = <<>>
    THEN (IF carry = 0 THEN <<>> ELSE <<carry>>)
    ELSE LET s == Low(a) + Low(b) + carry
         IN  <<s % Limb>> \o BigAddC(Rest(a), Rest(b), s \div Limb)

BigAdd(a, b) == BigAddC(a, b, 0)

\* a - b for a >= b.
RECURSIVE BigSubB(_, _, _)
BigSubB(a, b, borrow) ==
    IF a = <<>> THEN <<>>
    ELSE LET d == a[1] - Low(b) - borrow
         IN  IF d < 0
             THEN <<d + Limb>> \o BigSubB(Tail(a), Rest(b), 1)
             ELSE <<d>> \o BigSubB(Tail(a), Rest(b), 0)

BigSub(a, b) == Trim(BigSubB(a, b, 0))

\* -1, 0 or 1 as a < b, a = b or a > b.
RECURSIVE BigCmpAt(_, _, _)
BigCmpAt(a, b, i) ==
    IF i = 0 THEN 0
    ELSE IF a[i] < b[i] THEN -1
    ELSE IF a[i] > b[i] THEN 1
    ELSE BigCmpAt(a, b, i - 1)

BigCmp(a, b) ==
    IF Len(a) < Len(b) THEN -1
    ELSE IF Len(a) > Len(b) THEN 1
    ELSE BigCmpAt(a, b, Len(a))

\* a * d + carry for a limb d.
RECURSIVE BigMulLimb(_, _, _)
BigMulLimb(a, d, carry) ==
    IF a = <<>>
    THEN (IF carry = 0 THEN <<>> ELSE <<carry>>)
    ELSE IF d = 1 /\ carry = 0 THEN a
    ELSE LET p == a[1] * d + carry
         IN  <<p % Limb>> \o BigMulLimb(Tail(a), d, p \div Limb)

ShiftLimbs(a, k) == IF a = <<>> THEN a ELSE [i \in 1..k |-> 0] \o a

RECURSIVE BigMul(_, _)
BigMul(a, b) ==
    IF a = <<>> \/ b = <<>> THEN <<>>
    ELSE IF Len(b) = 1 THEN BigMulLimb(a, b[1], 0)
    ELSE IF Len(a) = 1 THEN BigMulLimb(b, a[1], 0)
    ELSE BigAdd(BigMulLimb(a, b[1], 0), ShiftLimbs(BigMul(a, Tail(b)), 1))

\* <<a \div d, a % d>> for a limb d > 0, from the most significant limb.
RECURSIVE BigDivLimbAt(_, _, _, _)
BigDivLimbAt(a, d, i, rem) ==
    IF i = 0 THEN <<<<>>, rem>>
    ELSE LET cur == rem * Limb + a[i]
             low == BigDivLimbAt(a, d, i - 1, cur % d)
         IN  <<Append(low[1], cur \div d), low[2]>>

BigDivLimb(a, d) ==
    IF d = 1 THEN <<a, 0>>
    ELSE LET r == BigDivLimbAt(a, d, Len(a), 0)
         IN  <<Trim(r[1]), r[2]>>

\* The largest digit d in lo..hi with b * d <= cur, where b * lo <= cur.
RECURSIVE BigDigit(_, _, _, _)
BigDigit(cur, b, lo, hi) ==
    IF lo = hi THEN lo
    ELSE LET mid == (lo + hi + 1) \div 2
         IN  IF BigCmp(BigMulLimb(b, mid, 0), cur) <= 0
             THEN BigDigit(cur, b, mid, hi)
             ELSE BigDigit(cur, b, lo, mid - 1)

\* <<a \div b, a % b>> for b > 0: long division, one limb of a at a time
\* from the most significant one.
RECURSIVE BigDivModAt(_, _, _, _)
BigDivModAt(a, b, i, rem) ==
    IF i = 0 THEN <<<<>>, rem>>
    ELSE LET cur == Trim(<<a[i]>> \o rem)
             digit == BigDigit(cur, b, 0, Limb - 1)
             low == BigDivModAt(a, b, i - 1, BigSub(cur, BigMulLimb(b, digit, 0)))
         IN  <<Append(low[1], digit), low[2]>>

BigDivMod(a, b) ==
    IF Len(b) = 1
    THEN LET r == BigDivLimb(a, b[1]) IN <<r[1], BigOf(r[2])>>
    ELSE LET r == BigDivModAt(a, b, Len(a), <<>>) IN <<Trim(r[1]), r[2]>>

\* The number of bits of n: 0 for 0, else the position of its top bit.
RECURSIVE IntBits(_)
IntBits(n) ==
    IF n < 128
    THEN (IF n < 8
          THEN (IF n < 2 THEN n ELSE IF n < 4 THEN 2 ELSE 3)
          ELSE IF n < 32 THEN (IF n < 16 THEN 4 ELSE 5)
          ELSE IF n < 64 THEN 6 ELSE 7)
    ELSE IF n < 2048
    THEN (IF n < 512 THEN (IF n < 256 THEN 8 ELSE 9)
          ELSE IF n < 1024 THEN 10 ELSE 11)
    ELSE IF n < 8192 THEN (IF n < 4096 THEN 12 ELSE 13)
    ELSE IF n < 16384 THEN 14
    ELSE IF n < 32768 THEN 15
    ELSE 15 + IntBits(n \div 32768)

BitLen(a) ==
    IF a = <<>> THEN 0 ELSE LimbBits * (Len(a) - 1) + IntBits(a[Len(a)])

ShiftLeft(a, k) ==
    ShiftLimbs(BigMulLimb(a, Pow2(k % LimbBits), 0), k \div LimbBits)

DropLimbs(a, k) == IF k >= Len(a) THEN <<>> ELSE SubSeq(a, k + 1, Len(a))

ShiftRight(a, k) ==
    BigDivLimb(DropLimbs(a, k \div LimbBits), Pow2(k % LimbBits))[1]

\* Bit i (from 0) of a.
Bit(a, i) ==
    IF i \div LimbBits >= Len(a) THEN 0
    ELSE (a[i \div LimbBits + 1] \div Pow2(i % LimbBits)) % 2

\* The k least significant bits of a are all 0.
LowBitsZero(a, k) ==
    /\ \A i \in 1..(k \div LimbBits) : i <= Len(a) => a[i] = 0
    /\ k \div LimbBits < Len(a) =>
           a[k \div LimbBits + 1] % Pow2(k % LimbBits) = 0

RECURSIVE IntTrailingZeros(_)
IntTrailingZeros(n) == IF n % 2 = 1 THEN 0 ELSE 1 + IntTrailingZeros(n \div 2)

RECURSIVE TrailingZeros(_)
TrailingZeros(a) ==
    IF a[1] = 0 THEN LimbBits + TrailingZeros(Tail(a))
    ELSE IntTrailingZeros(a[1])

(***************************************************************************)
(* JavaScript numbers: IEEE 754 binary64 values with round to nearest,     *)
(* ties to even.  A finite non-zero number is <<s, m, e>> with sign s in   *)
(* {1, -1}, an odd natural m < 2^53 and value s * m * 2^e, subnormals      *)
(* included; the zeros are <<s, <<>>, 0>>, the infinities <<s, <<>>, 1>>   *)
(* and NaN is <<0, <<>>, 1>>.                                              *)
(***************************************************************************)
SignedZero(s) == <<s, <<>>, 0>>

Zero == SignedZero(1)

NaN == <<0, <<>>, 1>>

Infinity(s) == <<s, <<>>, 1>>

IsNaN(x) == x = NaN

IsZero(x) == x[2] = <<>> /\ x[3] = 0

IsInfinite(x) == x[2] = <<>> /\ x[3] = 1 /\ x[1] # 0

\* Unary minus.
Neg(x) == <<-x[1], x[2], x[3]>>

Precision == 53

MinExponent == -1074

MaxExponent == 1024

\* The number s * m * 2^e for any natural m, written with an odd m.
Dyadic(s, m, e) ==
    IF m = <<>> THEN SignedZero(s)
    ELSE IF m[1] % 2 = 1 THEN <<s, m, e>>
    ELSE LET z == TrailingZeros(m)
         IN  <<s, ShiftRight(m, z), e + z>>

\* kept, or the next natural when the dropped bits are more than half of
\* the last place, or exactly half of it and kept is odd.
Nearest(kept, half, more) ==
    IF half /\ (more \/ Bit(kept, 0) = 1) THEN BigAdd(kept, <<1>>) ELSE kept

\* s * r * 2^quantum, or an infinity when that is 2^MaxExponent or more.
Rounded(s, r, quantum) ==
    IF BitLen(r) + quantum > MaxExponent THEN Infinity(s)
    ELSE Dyadic(s, r, quantum)

\* Round for a last place 2^quantum, top being the bit length of m plus e.
RoundTo(s, m, e, sticky, top, quantum) ==
    IF quantum <= e
    THEN (IF top > MaxExponent THEN Infinity(s) ELSE Dyadic(s, m, e))
    ELSE Rounded(s,
                 Nearest(ShiftRight(m, quantum - e),
                         Bit(m, quantum - e - 1) = 1,
                         sticky \/ ~LowBitsZero(m, quantum - e - 1)),
                 quantum)

\* The last place of a number below 2^top: Precision bits under the top
\* one, but no less than the least subnormal.
RoundTop(s, m, e, sticky, top) ==
    RoundTo(s, m, e, sticky, top,
            IF top - Precision > MinExponent THEN top - Precision
            ELSE MinExponent)

\* The double nearest to s * (m + t) * 2^e, where 0 <= t < 1 and sticky
\* tells whether t > 0 (then m has more than Precision + 1 bits).  A short m
\* with an exponent far from both ends of the range is a double as it is.
Round(s, m, e, sticky) ==
    IF m = <<>> THEN SignedZero(s)
    ELSE IF ~sticky /\ Len(m) * LimbBits <= Precision
            /\ e >= MinExponent /\ e <= MaxExponent - Precision
    THEN Dyadic(s, m, e)
    ELSE RoundTop(s, m, e, sticky, BitLen(m) + e)

Num(n) ==
    Round(IF n < 0 THEN -1 ELSE 1, BigOf(IF n < 0 THEN -n ELSE n), 0, FALSE)

Mul(a, b) ==
    IF IsNaN(a) \/ IsNaN(b) THEN NaN
    ELSE IF IsInfinite(a) \/ IsInfinite(b)
    THEN (IF IsZero(a) \/ IsZero(b) THEN NaN ELSE Infinity(a[1] * b[1]))
    ELSE Round(a[1] * b[1], BigMul(a[2], b[2]), a[3] + b[3], FALSE)

\* The least multiple of LimbBits that is no less than need.
ScaleBits(need) ==
    IF need > 0 THEN LimbBits * ((need + LimbBits - 1) \div LimbBits) ELSE 0

\* s * (qr[1] + t) * 2^e rounded, where t > 0 when the remainder qr[2] is
\* not 0.
RoundQuotient(s, qr, e) == Round(s, qr[1], e, qr[2] # <<>>)

QuotientBy(a, b, k) ==
    RoundQuotient(a[1] * b[1], BigDivMod(ShiftLeft(a[2], k), b[2]),
                  a[3] - b[3] - k)

\* The quotient of finite non-zero numbers: enough bits of m_a / m_b for the
\* rounding, and whether the division left a remainder.
Quotient(a, b) ==
    QuotientBy(a, b, ScaleBits(Precision + 2 + BitLen(b[2]) - BitLen(a[2])))

Div(a, b) ==
    IF IsNaN(a) \/ IsNaN(b) THEN NaN
    ELSE IF IsInfinite(a)
    THEN (IF IsInfinite(b) THEN NaN ELSE Infinity(a[1] * b[1]))
    ELSE IF IsInfinite(b) THEN SignedZero(a[1] * b[1])
    ELSE IF IsZero(b)
    THEN (IF IsZero(a) THEN NaN ELSE Infinity(a[1] * b[1]))
    ELSE IF IsZero(a) THEN SignedZero(a[1] * b[1])
    ELSE IF b[2] = <<1>> THEN Round(a[1] * b[1], a[2], a[3] - b[3], FALSE)
    ELSE Quotient(a, b)

\* -1, 0 or 1 as |a| < |b|, |a| = |b| or |a| > |b|, for finite non-zero a, b.
CmpAbs(a, b) ==
    LET topA == BitLen(a[2]) + a[3]
        topB == BitLen(b[2]) + b[3]
    IN  IF topA < topB THEN -1
        ELSE IF topA > topB THEN 1
        ELSE IF a[3] >= b[3]
        THEN BigCmp(ShiftLeft(a[2], a[3] - b[3]), b[2])
        ELSE BigCmp(a[2], ShiftLeft(b[2], b[3] - a[3]))

\* s * (x - y) * 2^e rounded, for x > y.
Difference(s, x, y, e) == Round(s, BigSub(x, y), e, FALSE)

\* sa * x * 2^e + sb * y * 2^e rounded; the sum of opposite numbers is 0.
SumAligned(sa, x, sb, y, e) ==
    IF sa = sb THEN Round(sa, BigAdd(x, y), e, FALSE)
    ELSE IF x = y THEN Zero
    ELSE IF BigCmp(x, y) > 0 THEN Difference(sa, x, y, e)
    ELSE Difference(sb, y, x, e)

SumAt(a, b, e) ==
    SumAligned(a[1], ShiftLeft(a[2], a[3] - e), b[1], ShiftLeft(b[2], b[3] - e), e)

\* An operand below a quarter of the last place of the other does not
\* change it.
SumTops(a, b, topA, topB) ==
    IF topA - topB > Precision + 2 THEN a
    ELSE IF topB - topA > Precision + 2 THEN b
    ELSE SumAt(a, b, IF a[3] < b[3] THEN a[3] ELSE b[3])

\* a + b for finite a, b.  A zero sum is negative only when both operands
\* are negative zeros.
Sum(a, b) ==
    IF IsZero(a) /\ IsZero(b) THEN (IF a[1] = b[1] THEN a ELSE Zero)
    ELSE IF IsZero(a) THEN b
    ELSE IF IsZero(b) THEN a
    ELSE SumTops(a, b, BitLen(a[2]) + a[3], BitLen(b[2]) + b[3])

Add(a, b) ==
    IF IsNaN(a) \/ IsNaN(b) THEN NaN
    ELSE IF IsInfinite(a)
    THEN (IF IsInfinite(b) /\ a # b THEN NaN ELSE a)
    ELSE IF IsInfinite(b) THEN b
    ELSE Sum(a, b)

\* -1, 0 or 1 as x is negative, a zero or positive.
Sign(x) == IF IsZero(x) THEN 0 ELSE x[1]

\* a > b of JavaScript: false when either is NaN; the zeros are equal.
Gt(a, b) ==
    IF IsNaN(a) \/ IsNaN(b) THEN FALSE
    ELSE IF a = b THEN FALSE
    ELSE IF Sign(a) # Sign(b) THEN Sign(a) > Sign(b)
    ELSE IF IsZero(a) THEN FALSE
    ELSE IF a[2] = <<>> \/ b[2] = <<>>
    THEN (IF a[1] > 0 THEN IsInfinite(a) ELSE IsInfinite(b))
    ELSE IF a[1] > 0 THEN CmpAbs(a, b) > 0 ELSE CmpAbs(a, b) < 0

\* Math.ceil.
Ceil(a) ==
    IF a[2] = <<>> \/ a[3] >= 0 THEN a
    ELSE LET floor == ShiftRight(a[2], -a[3])
         IN  IF a[1] > 0 THEN Dyadic(1, BigAdd(floor, <<1>>), 0)
             ELSE Dyadic(-1, floor, 0)

\* Array.prototype.reduce((sum, x) => sum + x, 0): from the left, from 0.
RECURSIVE SumFrom(_, _)
SumFrom(sum, s) == IF s = <<>> THEN sum ELSE SumFrom(Add(sum, Head(s)), Tail(s))

SumSeq(s) == SumFrom(Zero, s)

(***************************************************************************)
(* The ore qualities and their output rates (./types): a quality without   *)
(* yield, the default quality with rate 1, and a richer one.               *)
(***************************************************************************)
OreQuality == {"depleted", "normal", "pure"}

ORE_QUALITY_RATES == [depleted |-> Num(0), normal |-> Num(1), pure |-> Num(2)]

(***************************************************************************)
(* The inputs: the oreSourcesByItem parameter, a plain object, and the     *)
(* graph returned by buildProductionFlow.                                  *)
(***************************************************************************)
OreItems == {"ore"}

SeqsUpTo(S, n) == UNION {[1..k -> S] : k \in 0..n}

\* The origin lists of an item, in any order and with repetitions.
OreSourceLists == SeqsUpTo(OreQuality, MaxSources)

OreSourceMaps == UNION {[dom -> OreSourceLists] : dom \in SUBSET OreItems}

OreExcavator == [buildingId |-> "ore_excavator", recipeIndex |-> 0, outputItem |-> "ore"]

\* An excavator of an item whose id is also the name of a member that every
\* plain object inherits.
ConstructorExcavator ==
    [buildingId |-> "ore_excavator", recipeIndex |-> 0, outputItem |-> "constructor"]

Smelter == [buildingId |-> "smelter", recipeIndex |-> 0, outputItem |-> "bar"]

\* A building that is in no returned node list: edges that name it dangle.
Fabricator == [buildingId |-> "fabricator", recipeIndex |-> 1, outputItem |-> "plate"]

ProductionNode(k, l) ==
    [buildingId |-> k.buildingId, recipeIndex |-> k.recipeIndex,
     outputItem |-> k.outputItem, outputAmount |-> l.outputAmount,
     buildingCount |-> l.buildingCount, powerPerBuilding |-> l.powerPerBuilding,
     totalPower |-> Mul(Ceil(l.buildingCount), l.powerPerBuilding)]

ExcavatorLoad ==
    [buildingCount |-> Div(Num(7), Num(2)), outputAmount |-> Num(2),
     powerPerBuilding |-> Num(4)]

ProductionNodes ==
    { ProductionNode(OreExcavator, ExcavatorLoad),
      ProductionNode(ConstructorExcavator, ExcavatorLoad),
      ProductionNode(Smelter,
          [buildingCount |-> Num(1), outputAmount |-> Num(3),
           powerPerBuilding |-> Num(5)]) }

ProductionNodeLists == SeqsUpTo(ProductionNodes, MaxNodes)

nodeKey(node) ==
    node.buildingId \o "_" \o ToString(node.recipeIndex) \o "_" \o node.outputItem

ProductionEdge(from, to, itemId, amount) ==
    [from |-> nodeKey(from), to |-> nodeKey(to), itemId |-> itemId,
     amount |-> Num(amount)]

ProductionEdges ==
    { ProductionEdge(OreExcavator, Smelter, "ore", 1),
      ProductionEdge(OreExcavator, Smelter, "ore", 7),
      ProductionEdge(OreExcavator, Smelter, "bar", 6),
      ProductionEdge(Smelter, OreExcavator, "bar", 2),
      ProductionEdge(Fabricator, Smelter, "plate", 1) }

\* buildProductionFlow returns a finite DAG: no set of keys in which every
\* key has an edge to a key of the set.
Acyclic(edges) ==
    \A S \in SUBSET {edges[j].from : j \in 1..Len(edges)} \ {{}} :
        \E k \in S :
            \A j \in 1..Len(edges) : ~(edges[j].from = k /\ edges[j].to \in S)

(***************************************************************************)
(* generateReactFlowData, lines 58-70.                                     *)
(***************************************************************************)
QualityByItem(sourcesByItem) ==
    [itemId \in DOMAIN sourcesByItem |->
        IF Len(sourcesByItem[itemId]) > 0 THEN sourcesByItem[itemId][1] ELSE "normal"]

Init ==
    /\ pc = "start"
    /\ oreSourcesByItem \in OreSourceMaps
    /\ oreQualityByItem = <<>>
    /\ flowNodes = <<>>
    /\ flowEdges = <<>>
    /\ expandedNodes = <<>>
    /\ nodeKeyToExpandedIndexes = <<>>
    /\ expandedEdges = <<>>
    /\ dagreNodes = {}
    /\ dagreEdges = {}
    /\ totalPowerConsumption = Zero
    /\ reactFlowNodes = <<>>
    /\ reactFlowEdges = <<>>
    /\ edgeIdSet = {}
    /\ discarded = <<>>
    /\ result = [nodes |-> <<>>, edges |-> <<>>]

BuildProductionFlow ==
    /\ pc = "start"
    /\ oreQualityByItem' = QualityByItem(oreSourcesByItem)
    /\ \E nodes \in ProductionNodeLists,
          edges \in SeqsUpTo(ProductionEdges, MaxEdges) :
            /\ Acyclic(edges)
            /\ flowNodes' = nodes
            /\ flowEdges' = edges
    /\ pc' = "expand"
    /\ UNCHANGED <<oreSourcesByItem, expandedNodes, nodeKeyToExpandedIndexes,
                   expandedEdges, dagreNodes, dagreEdges, totalPowerConsumption,
                   reactFlowNodes, reactFlowEdges, edgeIdSet, discarded, result>>

(***************************************************************************)
(* The Source Expander, lines 72-123.                                      *)
(***************************************************************************)
\* The values a read of oreSourcesByItem[itemId] can give: an array of
\* qualities, or a function that the object inherits from Object.prototype.
Array(items) == [isArray |-> TRUE, length |-> Len(items), items |-> items]

Function(length) == [isArray |-> FALSE, length |-> length, items |-> <<>>]

\* The length of the members of Object.prototype that are functions;
\* __proto__ is an object and has none.
ObjectPrototype ==
    [constructor |-> 1, hasOwnProperty |-> 1, isPrototypeOf |-> 1,
     propertyIsEnumerable |-> 1, toLocaleString |-> 0, toString |-> 0,
     valueOf |-> 0, __defineGetter__ |-> 2, __defineSetter__ |-> 2,
     __lookupGetter__ |-> 1, __lookupSetter__ |-> 1, __proto__ |-> -1]

getOreSources(itemId) ==
    IF itemId \in DOMAIN oreSourcesByItem
    THEN (IF Len(oreSourcesByItem[itemId]) > 0
          THEN Array(oreSourcesByItem[itemId])
          ELSE Array(<<"normal">>))
    ELSE IF itemId \in DOMAIN ObjectPrototype /\ ObjectPrototype[itemId] > 0
    THEN Function(ObjectPrototype[itemId])
    ELSE Array(<<"normal">>)

totalDemand(node) == Mul(node.buildingCount, node.outputAmount)

sourceShare_Whole(sources) == Num(1)

sourceShare(sources) ==
    IF sources.length > 0 THEN Div(Num(1), Num(sources.length)) ELSE Num(1)

\* buildingCount of line 95.
splitBuildingCount(demand, share, outputRate) ==
    IF Gt(outputRate, Zero) THEN Div(Mul(demand, share), outputRate) ELSE Zero

splitTotalPower_NoCeil(buildingCount, node) ==
    Mul(buildingCount, node.powerPerBuilding)

\* totalPower of line 96.
splitTotalPower(buildingCount, node) ==
    Mul(Ceil(buildingCount), node.powerPerBuilding)

\* splitNode of lines 98-103.
splitNode(node, outputRate, buildingCount) ==
    [node EXCEPT !.outputAmount = outputRate,
                 !.buildingCount = buildingCount,
                 !.totalPower = splitTotalPower(buildingCount, node)]

\* The entry pushed for one source, lines 94-112.
splitEntry(node, demand, share, sources, sourceIndex, outputRate) ==
    [node |-> splitNode(node, outputRate,
                        splitBuildingCount(demand, share, outputRate)),
     originalKey |-> nodeKey(node),
     sourceIndex |-> sourceIndex,
     sourceCount |-> sources.length,
     sourceQuality |-> sources.items[sourceIndex + 1]]

sourceEntries_FirstOnly(node, demand, share, sources) ==
    [sourceIndex0 \in 1..1 |->
        splitEntry(node, demand, share, sources, sourceIndex0 - 1,
                   ORE_QUALITY_RATES[sources.items[sourceIndex0]])]

\* The entries that sources.forEach pushes, in order.
sourceEntries(node, demand, share, sources) ==
    [sourceIndex0 \in 1..Len(sources.items) |->
        splitEntry(node, demand, share, sources, sourceIndex0 - 1,
                   ORE_QUALITY_RATES[sources.items[sourceIndex0]])]

splitEntries(node, sources) ==
    sourceEntries(node, totalDemand(node), sourceShare(sources), sources)

mapGet(map, key) == IF key \in DOMAIN map THEN map[key] ELSE <<>>

mapSet(map, key, value) ==
    [k \in DOMAIN map \cup {key} |-> IF k = key THEN value ELSE map[k]]

pushedIndexes_Overwrite(map, key, first, count) ==
    mapSet(map, key, <<first + count - 1>>)

pushedIndexes(map, key, first, count) ==
    mapSet(map, key, mapGet(map, key) \o [j \in 1..count |-> first + j - 1])

\* The pushes of lines 105-115 for the entries of one node.
pushEntries(acc, key, entries) ==
    [acc EXCEPT !.expandedNodes = @ \o entries,
                !.indexes = pushedIndexes(@, key, Len(acc.expandedNodes),
                                          Len(entries))]

\* Lines 89-117.  sources.forEach of line 93 is not a function when sources
\* is not an array: a TypeError.
expandOre(acc, node, sources) ==
    IF sources.isArray
    THEN pushEntries(acc, nodeKey(node), splitEntries(node, sources))
    ELSE [acc EXCEPT !.threw = TRUE]

\* One call of the callback of flowNodes.forEach.
expandNode(acc, node) ==
    IF node.buildingId = "ore_excavator"
    THEN expandOre(acc, node, getOreSources(node.outputItem))
    ELSE [acc EXCEPT
             !.expandedNodes = Append(@, [node |-> node,
                                          originalKey |-> nodeKey(node)]),
             !.indexes = mapSet(@, nodeKey(node), <<Len(acc.expandedNodes)>>)]

RECURSIVE forEachNode(_, _)
forEachNode(acc, nodes) ==
    IF nodes = <<>> \/ acc.threw THEN acc
    ELSE forEachNode(expandNode(acc, Head(nodes)), Tail(nodes))

ExpandNodes ==
    /\ pc = "expand"
    /\ \E all \in {forEachNode([expandedNodes |-> <<>>, indexes |-> <<>>,
                                 threw |-> FALSE], flowNodes)} :
           /\ expandedNodes' = all.expandedNodes
           /\ nodeKeyToExpandedIndexes' = all.indexes
           /\ pc' = IF all.threw THEN "threw" ELSE "distribute"
    /\ UNCHANGED <<oreSourcesByItem, oreQualityByItem, flowNodes, flowEdges,
                   expandedEdges, dagreNodes, dagreEdges, totalPowerConsumption,
                   reactFlowNodes, reactFlowEdges, edgeIdSet, discarded, result>>

(***************************************************************************)
(* The Edge Distributor, lines 125-151.                                    *)
(***************************************************************************)
RECURSIVE Flatten(_)
Flatten(ss) == IF ss = <<>> THEN <<>> ELSE ss[1] \o Flatten(Tail(ss))

edgeAmount_NoShare(edge, fromIndexes) == edge.amount

edgeAmount(edge, fromIndexes) ==
    Mul(edge.amount, Div(Num(1), Num(Len(fromIndexes))))

fanOut_FirstTarget(edge, fromIndexes, toIndexes) ==
    IF Len(fromIndexes) = 0 \/ Len(toIndexes) = 0
    THEN <<>>
    ELSE [f \in 1..Len(fromIndexes) |->
             [fromIndex |-> fromIndexes[f], toIndex |-> toIndexes[1],
              itemId |-> edge.itemId,
              amount |-> edgeAmount(edge, fromIndexes)]]

fanOut(edge, fromIndexes, toIndexes) ==
    IF Len(fromIndexes) = 0 \/ Len(toIndexes) = 0
    THEN <<>>
    ELSE LET amount == edgeAmount(edge, fromIndexes)
         IN  Flatten([f \in 1..Len(fromIndexes) |->
                 [t \in 1..Len(toIndexes) |->
                     [fromIndex |-> fromIndexes[f], toIndex |-> toIndexes[t],
                      itemId |-> edge.itemId, amount |-> amount]]])

edgeFanOut(edge) ==
    fanOut(edge, mapGet(nodeKeyToExpandedIndexes, edge.from),
                 mapGet(nodeKeyToExpandedIndexes, edge.to))

DistributeEdges ==
    /\ pc = "distribute"
    /\ expandedEdges' =
           Flatten([j \in 1..Len(flowEdges) |-> edgeFanOut(flowEdges[j])])
    /\ pc' = "layout"
    /\ UNCHANGED <<oreSourcesByItem, oreQualityByItem, flowNodes, flowEdges,
                   expandedNodes, nodeKeyToExpandedIndexes, dagreNodes, dagreEdges,
                   totalPowerConsumption, reactFlowNodes, reactFlowEdges, edgeIdSet,
                   discarded, result>>

(***************************************************************************)
(* The layout graph, the power total and the returned nodes, lines 153-353.*)
(***************************************************************************)
nodeId(index) == "node_" \o ToString(index)

reactFlowNode(entry, index) ==
    LET isOreExcavator == entry.node.buildingId = "ore_excavator"
    IN  [id |-> nodeId(index),
         node |-> entry.node,
         oreQuality |-> IF isOreExcavator
                        THEN (IF "sourceQuality" \in DOMAIN entry
                              THEN entry.sourceQuality ELSE "normal")
                        ELSE "null"]

LayoutNodes ==
    /\ pc = "layout"
    /\ dagreNodes' = {nodeId(i - 1) : i \in 1..Len(expandedNodes)}
    /\ dagreEdges' = { <<nodeId(expandedEdges[j].fromIndex),
                         nodeId(expandedEdges[j].toIndex)>> :
                         j \in 1..Len(expandedEdges) }
    /\ totalPowerConsumption' =
           SumSeq([i \in 1..Len(expandedNodes) |-> expandedNodes[i].node.totalPower])
    /\ reactFlowNodes' =
           [i \in 1..Len(expandedNodes) |-> reactFlowNode(expandedNodes[i], i - 1)]
    /\ pc' = "edges"
    /\ UNCHANGED <<oreSourcesByItem, oreQualityByItem, flowNodes, flowEdges,
                   expandedNodes, nodeKeyToExpandedIndexes, expandedEdges,
                   reactFlowEdges, edgeIdSet, discarded, result>>

(***************************************************************************)
(* The returned edges and the return, lines 355-385.  discarded records    *)
(* the indices of the expanded edges that the duplicate check has dropped. *)
(***************************************************************************)
edgeId_NoItem(edge) ==
    nodeId(edge.fromIndex) \o "-" \o nodeId(edge.toIndex)

edgeId(edge) ==
    nodeId(edge.fromIndex) \o "-" \o nodeId(edge.toIndex) \o "-" \o edge.itemId

reactFlowEdge(edge) ==
    [id |-> edgeId(edge), source |-> nodeId(edge.fromIndex),
     target |-> nodeId(edge.toIndex), itemId |-> edge.itemId,
     amount |-> edge.amount]

isDuplicate_Never(ids, edge) == FALSE

isDuplicate(ids, edge) == edgeId(edge) \in ids

assembleEdge(acc, index) ==
    LET edge == expandedEdges[index + 1]
    IN  IF isDuplicate(acc.edgeIdSet, edge)
        THEN [acc EXCEPT !.discarded = Append(@, index)]
        ELSE [acc EXCEPT !.edgeIdSet = @ \cup {edgeId(edge)},
                         !.reactFlowEdges = Append(@, reactFlowEdge(edge))]

RECURSIVE forEachEdge(_, _)
forEachEdge(acc, index) ==
    IF index >= Len(expandedEdges) THEN acc
    ELSE forEachEdge(assembleEdge(acc, index), index + 1)

AssembleEdges ==
    /\ pc = "edges"
    /\ \E all \in {forEachEdge([reactFlowEdges |-> <<>>, edgeIdSet |-> {},
                               discarded |-> <<>>], 0)} :
           /\ reactFlowEdges' = all.reactFlowEdges
           /\ edgeIdSet' = all.edgeIdSet
           /\ discarded' = all.discarded
           /\ result' = [nodes |-> reactFlowNodes, edges |-> all.reactFlowEdges]
    /\ pc' = "done"
    /\ UNCHANGED <<oreSourcesByItem, oreQualityByItem, flowNodes, flowEdges,
                   expandedNodes, nodeKeyToExpandedIndexes, expandedEdges,
                   dagreNodes, dagreEdges, totalPowerConsumption, reactFlowNodes>>

Next ==
    \/ BuildProductionFlow
    \/ ExpandNodes
    \/ DistributeEdges
    \/ LayoutNodes
    \/ AssembleEdges

Spec == Init /\ [][Next]_vars

(***************************************************************************)
(* Vocabulary of the properties.                                           *)
(***************************************************************************)
Sub(a, b) == Add(a, Neg(b))

Abs(x) == IF x[1] < 0 THEN Neg(x) ELSE x

\* a <= b of JavaScript.
Leq(a, b) == ~IsNaN(a) /\ ~IsNaN(b) /\ ~Gt(a, b)

\* Equality up to the rounding of a few dozen operations: a relative
\* difference of at most 2^-40.
Tolerance == <<1, <<1>>, -40>>

Near(a, b) ==
    Leq(Abs(Sub(a, b)),
        Mul(Tolerance, IF Gt(Abs(a), Abs(b)) THEN Abs(a) ELSE Abs(b)))

\* The number of origins of a base node: the length of the origin list of
\* an ore_excavator node's output item (1 when absent or empty), else 1.
OriginCount(node) ==
    IF node.buildingId = "ore_excavator"
    THEN IF node.outputItem \in DOMAIN oreSourcesByItem
            /\ Len(oreSourcesByItem[node.outputItem]) > 0
         THEN Len(oreSourcesByItem[node.outputItem])
         ELSE 1
    ELSE 1

OriginQuality(node, j) ==
    IF node.outputItem \in DOMAIN oreSourcesByItem
       /\ Len(oreSourcesByItem[node.outputItem]) > 0
    THEN oreSourcesByItem[node.outputItem][j]
    ELSE "normal"

RECURSIVE OriginOffset(_)
OriginOffset(i) ==
    IF i <= 1 THEN 0 ELSE OriginOffset(i - 1) + OriginCount(flowNodes[i - 1])

\* The expansion loop has ended, with or without an exception.
ExpansionOver == pc \notin {"start", "expand"}

\* The expansion loop has ended without an exception.
NodesExpanded == pc \notin {"start", "expand", "threw"}

\* Base node i has been expanded.
NodeDone(i) == NodesExpanded /\ i \in 1..Len(flowNodes)

\* Base node i has been expanded and the Edge Distributor has not yet run.
NodeSplit(i) == pc = "distribute" /\ i \in 1..Len(flowNodes)

\* The expanded nodes created from base node i, in origin order.
HasOrigins(i) == OriginOffset(i) + OriginCount(flowNodes[i]) <= Len(expandedNodes)

Origins(i) ==
    SubSeq(expandedNodes, OriginOffset(i) + 1,
           OriginOffset(i) + OriginCount(flowNodes[i]))

IsOre(i) == flowNodes[i].buildingId = "ore_excavator"

Throughput(node) == Mul(node.buildingCount, node.outputAmount)

OriginsThroughput(i) ==
    LET origins == Origins(i)
    IN  SumSeq([j \in 1..Len(origins) |-> Throughput(origins[j].node)])

PositiveOrigins(i) ==
    Cardinality({j \in 1..OriginCount(flowNodes[i]) :
                    Gt(ORE_QUALITY_RATES[OriginQuality(flowNodes[i], j)], Zero)})

EdgesDistributed == pc \in {"layout", "edges", "done"}

\* Base edge j has been distributed and the layout has not yet run.
EdgeFanned(j) == pc = "layout" /\ j \in 1..Len(flowEdges)

FromIndexes(edge) == mapGet(nodeKeyToExpandedIndexes, edge.from)

ToIndexes(edge) == mapGet(nodeKeyToExpandedIndexes, edge.to)

FanCount(edge) == Len(FromIndexes(edge)) * Len(ToIndexes(edge))

RECURSIVE FanOffset(_)
FanOffset(j) ==
    IF j <= 1 THEN 0 ELSE FanOffset(j - 1) + FanCount(flowEdges[j - 1])

HasFan(j) == FanOffset(j) + FanCount(flowEdges[j]) <= Len(expandedEdges)

\* The expanded edges emitted for base edge j, in emission order.
Fan(j) ==
    SubSeq(expandedEdges, FanOffset(j) + 1, FanOffset(j) + FanCount(flowEdges[j]))

FanAmount(j) ==
    LET fan == Fan(j)
    IN  SumSeq([k \in 1..Len(fan) |-> fan[k].amount])

(***************************************************************************)
(* C1.  Flow conservation across node expansion.                           *)
(***************************************************************************)
\* C1 as claimed: for every expanded ore_excavator base node, whatever its
\* origin rates (a zero rate included), the throughputs buildingCount x
\* outputAmount of its expanded nodes sum to the throughput of the base node.
C1_ThroughputConserved ==
    \A i \in 1..Len(flowNodes) :
        NodeSplit(i) /\ IsOre(i) =>
            /\ HasOrigins(i)
            /\ OriginsThroughput(i) = Throughput(flowNodes[i])

\* C1 amended: the throughputs of the expanded nodes of an ore_excavator base
\* node with N origins, P of them with a positive rate, sum to P/N of the
\* throughput of the base node, up to the rounding of the arithmetic.
C1_ThroughputOfPositiveOrigins ==
    \A i \in 1..Len(flowNodes) :
        NodeSplit(i) /\ IsOre(i) =>
            /\ HasOrigins(i)
            /\ Near(OriginsThroughput(i),
                    Mul(Throughput(flowNodes[i]),
                        Div(Num(PositiveOrigins(i)),
                            Num(OriginCount(flowNodes[i])))))

C1_Witness ==
    \E i \in 1..Len(flowNodes) :
        /\ NodeSplit(i) /\ IsOre(i)
        /\ OriginCount(flowNodes[i]) = 3
        /\ PositiveOrigins(i) = 2
        /\ Throughput(flowNodes[i]) = Num(7)
        /\ OriginsThroughput(i) # Div(Num(14), Num(3))
        /\ Near(OriginsThroughput(i), Div(Num(14), Num(3)))

(***************************************************************************)
(* C2.  Edge conservation.                                                 *)
(***************************************************************************)
\* C2 as claimed: the amounts of the expanded edges emitted for a base edge
\* with both keys in the mapping sum to the amount of the base edge, whatever
\* the number of expansions of the destination key.
C2_EdgeAmountConserved ==
    \A j \in 1..Len(flowEdges) :
        EdgeFanned(j) /\ FanCount(flowEdges[j]) >= 1 =>
            /\ HasFan(j)
            /\ FanAmount(j) = flowEdges[j].amount

\* C2 amended: the amounts of the expanded edges emitted for a base edge with
\* both keys in the mapping sum to the amount of the base edge times the
\* number of expansions of its destination key, up to the rounding of the
\* arithmetic.
C2_EdgeAmountTimesTargets ==
    \A j \in 1..Len(flowEdges) :
        EdgeFanned(j) /\ FanCount(flowEdges[j]) >= 1 =>
            /\ HasFan(j)
            /\ Near(FanAmount(j),
                    Mul(flowEdges[j].amount, Num(Len(ToIndexes(flowEdges[j])))))

C2_Witness ==
    \E j \in 1..Len(flowEdges) :
        /\ EdgeFanned(j)
        /\ Len(FromIndexes(flowEdges[j])) = 3
        /\ Len(ToIndexes(flowEdges[j])) = 1
        /\ Len(Fan(j)) = 3
        /\ flowEdges[j].amount = Num(7)
        /\ FanAmount(j) # Num(7)
        /\ Near(FanAmount(j), Num(7))

(***************************************************************************)
(* C3.  Edge identity uniqueness, the first edge of an identity wins.      *)
(***************************************************************************)
Identity(edge) == <<edge.fromIndex, edge.toIndex, edge.itemId>>

FinalIdentity(e) == <<e.source, e.target, e.itemId>>

NamedIdentity(edge) ==
    <<"node_" \o ToString(edge.fromIndex), "node_" \o ToString(edge.toIndex),
      edge.itemId>>

FirstOf(k) ==
    CHOOSE m \in 1..k :
        /\ Identity(expandedEdges[m]) = Identity(expandedEdges[k])
        /\ \A n \in 1..(m - 1) :
               Identity(expandedEdges[n]) # Identity(expandedEdges[k])

\* C3: the returned graph has no two edges with the same (source, target,
\* item id); every identity of an expanded edge has exactly one returned edge,
\* which carries the amount of the first expanded edge of that identity; the
\* returned edges are the first expanded edges of their identities, in
\* expanded-edge order, and every later expanded edge is discarded.
C3_FirstEdgeWins ==
    pc = "done" =>
        LET firstOf == [k \in 1..Len(expandedEdges) |-> FirstOf(k)]
            firsts == {k \in 1..Len(expandedEdges) : firstOf[k] = k}
            rank == [k \in 1..Len(expandedEdges) |->
                        Cardinality({m \in firsts : m <= k})]
        IN  /\ \A a, b \in 1..Len(result.edges) :
                   FinalIdentity(result.edges[a]) = FinalIdentity(result.edges[b])
                       => a = b
            /\ Len(result.edges) = Cardinality(firsts)
            /\ \A k \in 1..Len(expandedEdges) :
                   LET kept == result.edges[rank[firstOf[k]]]
                   IN  /\ FinalIdentity(kept) = NamedIdentity(expandedEdges[k])
                       /\ kept.amount = expandedEdges[firstOf[k]].amount
            /\ {discarded[d] + 1 : d \in 1..Len(discarded)} =
                   (1..Len(expandedEdges)) \ firsts

C3_Witness ==
    /\ pc = "done"
    /\ \E k \in 1..Len(expandedEdges) :
           /\ FirstOf(k) < k
           /\ expandedEdges[FirstOf(k)].amount # expandedEdges[k].amount
           /\ \E a \in 1..Len(result.edges) :
                  /\ FinalIdentity(result.edges[a]) = NamedIdentity(expandedEdges[k])
                  /\ result.edges[a].amount = expandedEdges[FirstOf(k)].amount

(***************************************************************************)
(* C4.  Per-origin result of the Source Expander.                          *)
(***************************************************************************)
\* D / N, rounded.
ClaimedDemand(node, n) == Div(Throughput(node), Num(n))

\* D x (1 / N), the reciprocal and the product each rounded.
ExpectedDemand(node, n) == Mul(Throughput(node), Div(Num(1), Num(n)))

\* The expanded nodes of every split base node have buildingCount demand / r
\* when r > 0 and 0 otherwise, totalPower ceiling(that) x powerPerBuilding
\* and outputAmount r, for the per-origin demand given by demandOf.
PerOriginWith(demandOf(_, _)) ==
    \A i \in 1..Len(flowNodes) :
        NodeSplit(i) /\ IsOre(i) =>
            /\ HasOrigins(i)
            /\ LET origins == Origins(i)
                   base == flowNodes[i]
                   demand == demandOf(base, OriginCount(base))
               IN  \A j \in 1..OriginCount(base) :
                       LET rate == ORE_QUALITY_RATES[OriginQuality(base, j)]
                           count == IF Gt(rate, Zero) THEN Div(demand, rate)
                                    ELSE Zero
                           split == origins[j].node
                       IN  /\ split.buildingCount = count
                           /\ split.totalPower =
                                  Mul(Ceil(count), base.powerPerBuilding)
                           /\ split.outputAmount = rate

\* C4 as claimed: the i-th expanded node of an ore_excavator base node with
\* demand D and N origins has buildingCount (D / N) / r_i when r_i > 0 and 0
\* otherwise, totalPower ceiling(that buildingCount) x powerPerBuilding and
\* outputAmount r_i, whatever the rates of the other origins.
C4_PerOriginQuotient == PerOriginWith(ClaimedDemand)

\* C4 amended: the same with buildingCount (D x (1 / N)) / r_i, the reciprocal
\* 1 / N, the product and the quotient each rounded to a double.
C4_PerOriginResult == PerOriginWith(ExpectedDemand)

C4_Witness ==
    \E i \in 1..Len(flowNodes) :
        /\ NodeSplit(i) /\ IsOre(i)
        /\ OriginCount(flowNodes[i]) = 3
        /\ Throughput(flowNodes[i]) = Num(7)
        /\ ORE_QUALITY_RATES[OriginQuality(flowNodes[i], 1)] = Zero
        /\ ORE_QUALITY_RATES[OriginQuality(flowNodes[i], 2)] = Num(1)
        /\ ORE_QUALITY_RATES[OriginQuality(flowNodes[i], 3)] = Num(2)
        /\ Origins(i)[1].node.buildingCount = Zero
        /\ Origins(i)[1].node.totalPower = Zero
        /\ Origins(i)[2].node.buildingCount = Mul(Num(7), Div(Num(1), Num(3)))
        /\ Origins(i)[2].node.buildingCount # Div(Num(7), Num(3))
        /\ Origins(i)[2].node.totalPower =
               Mul(Num(3), flowNodes[i].powerPerBuilding)
        /\ Origins(i)[3].node.totalPower =
               Mul(Num(2), flowNodes[i].powerPerBuilding)
        /\ Origins(i)[3].node.outputAmount = Num(2)

(***************************************************************************)
(* C5.  Edge fan-out.                                                      *)
(***************************************************************************)
\* The expanded edges of the base edges are one per pair of fromIndexes x
\* toIndexes (from-index first, then to-index), each with the item id of the
\* base edge and the amount given by amountOf; a base edge with a key absent
\* from the mapping emits none; the expanded edges are those of the base
\* edges, in their order.
FanOutWith(amountOf(_, _)) ==
    /\ \A j \in 1..Len(flowEdges) :
           EdgeFanned(j) =>
               LET edge == flowEdges[j]
                   from == FromIndexes(edge)
                   to == ToIndexes(edge)
                   fan == Fan(j)
                   amount == amountOf(edge.amount, Len(from))
               IN  /\ HasFan(j)
                   /\ Len(fan) = Len(from) * Len(to)
                   /\ \A f \in 1..Len(from), t \in 1..Len(to) :
                          fan[(f - 1) * Len(to) + t] =
                              [fromIndex |-> from[f], toIndex |-> to[t],
                               itemId |-> edge.itemId,
                               amount |-> amount]
                   /\ (edge.from \notin DOMAIN nodeKeyToExpandedIndexes
                       \/ edge.to \notin DOMAIN nodeKeyToExpandedIndexes)
                          => Len(fan) = 0
    /\ EdgesDistributed =>
           Len(expandedEdges) = FanOffset(Len(flowEdges) + 1)

ClaimedAmount(amount, count) == Div(amount, Num(count))

ExpectedAmount(amount, count) == Mul(amount, Div(Num(1), Num(count)))

\* C5 as claimed: the expanded edges emitted for a base edge are exactly one
\* per pair of fromIndexes x toIndexes of the mapping entries of its keys, each
\* with the item id of the base edge and the amount A / |fromIndexes|; a base
\* edge with a key absent from the mapping emits none and leaves the edges of
\* the other base edges as they are.
C5_FanOutQuotient == FanOutWith(ClaimedAmount)

\* C5 amended: the same with the amount A x (1 / |fromIndexes|), the
\* reciprocal and the product each rounded to a double.
C5_CartesianFanOut == FanOutWith(ExpectedAmount)

C5_Witness ==
    /\ EdgesDistributed
    /\ Len(flowEdges) = 2
    /\ flowEdges[1].from \notin DOMAIN nodeKeyToExpandedIndexes
    /\ Len(FromIndexes(flowEdges[2])) = 3
    /\ Len(ToIndexes(flowEdges[2])) = 1
    /\ Len(expandedEdges) = 3
    /\ flowEdges[2].amount = Num(7)
    /\ expandedEdges[1].amount = Mul(Num(7), Div(Num(1), Num(3)))
    /\ expandedEdges[1].amount # Div(Num(7), Num(3))
    /\ expandedEdges[1].toIndex = expandedEdges[3].toIndex
    /\ expandedEdges[1].fromIndex # expandedEdges[3].fromIndex

(***************************************************************************)
(* C6.  Node count.                                                        *)
(***************************************************************************)
\* C6: the number of expanded nodes, and of returned nodes, is the sum of the
\* origin counts of the base nodes, and the returned nodes have the distinct
\* ids node_0 .. node_(n-1).
C6_NodeCount ==
    /\ NodesExpanded => Len(expandedNodes) = OriginOffset(Len(flowNodes) + 1)
    /\ pc = "done" =>
           /\ Len(result.nodes) = OriginOffset(Len(flowNodes) + 1)
           /\ \A a, b \in 1..Len(result.nodes) :
                  result.nodes[a].id = result.nodes[b].id => a = b
           /\ {result.nodes[a].id : a \in 1..Len(result.nodes)} =
                  {"node_" \o ToString(n) : n \in 0..(Len(result.nodes) - 1)}

C6_Witness ==
    /\ pc = "done"
    /\ Len(flowNodes) = 2
    /\ IsOre(1) /\ OriginCount(flowNodes[1]) = 2
    /\ ~IsOre(2)
    /\ Len(result.nodes) = 3
    /\ result.nodes[3].id = "node_2"

(***************************************************************************)
(* C7.  Default origin.                                                    *)
(***************************************************************************)
Unconfigured(itemId) ==
    \/ itemId \notin DOMAIN oreSourcesByItem
    \/ Len(oreSourcesByItem[itemId]) = 0

\* C7: an ore_excavator node whose output item is absent from
\* oreSourcesByItem, or has an empty list there, is expanded into exactly one
\* node, with origin index 0, origin count 1 and quality normal; the quality
\* given to buildProductionFlow for an item with an empty list is normal.
C7_DefaultOrigin ==
    /\ \A i \in 1..Len(flowNodes) :
           ExpansionOver /\ IsOre(i) /\ Unconfigured(flowNodes[i].outputItem) =>
               /\ Cardinality({m \in 1..Len(expandedNodes) :
                      /\ expandedNodes[m].originalKey = nodeKey(flowNodes[i])
                      /\ m > OriginOffset(i)
                      /\ i < Len(flowNodes) => m <= OriginOffset(i + 1)}) = 1
               /\ HasOrigins(i)
               /\ LET origins == Origins(i)
                  IN  /\ Len(origins) = 1
                      /\ origins[1].sourceIndex = 0
                      /\ origins[1].sourceCount = 1
                      /\ origins[1].sourceQuality = "normal"
    /\ ExpansionOver => Len(expandedNodes) >= Len(flowNodes)
    /\ pc # "start" =>
           \A itemId \in DOMAIN oreSourcesByItem :
               Len(oreSourcesByItem[itemId]) = 0 =>
                   oreQualityByItem[itemId] = "normal"

\* The call that C7 fails on: the item of the excavator is no key of
\* oreSourcesByItem and the expansion ends in an exception with no node.
C7_Witness ==
    /\ pc = "threw"
    /\ Len(flowNodes) = 1
    /\ IsOre(1)
    /\ flowNodes[1].outputItem = "constructor"
    /\ Unconfigured(flowNodes[1].outputItem)
    /\ ~getOreSources(flowNodes[1].outputItem).isArray
    /\ Len(expandedNodes) = 0

(***************************************************************************)
(* C8.  The key-to-indices mapping.                                        *)
(***************************************************************************)
KeyTriple(node) == <<node.buildingId, node.recipeIndex, node.outputItem>>

KeysDistinct ==
    \A a, b \in 1..Len(flowNodes) :
        KeyTriple(flowNodes[a]) = KeyTriple(flowNodes[b]) => a = b

Range(seq) == {seq[n] : n \in 1..Len(seq)}

\* C8: when the keys of the base nodes are pairwise distinct, the mapping
\* entry of the key of every expanded base node is the list of the indices of
\* the expanded nodes created from it, in origin order; after expansion the
\* lists of distinct keys are disjoint, repeat no index and cover every
\* expanded-node index exactly once.
C8_KeyToIndexes ==
    KeysDistinct =>
        /\ \A i \in 1..Len(flowNodes) :
               NodeDone(i) =>
                   /\ HasOrigins(i)
                   /\ nodeKey(flowNodes[i]) \in DOMAIN nodeKeyToExpandedIndexes
                   /\ nodeKeyToExpandedIndexes[nodeKey(flowNodes[i])] =
                          [j \in 1..OriginCount(flowNodes[i]) |->
                              OriginOffset(i) + j - 1]
                   /\ LET origins == Origins(i)
                      IN  \A j \in 1..Len(origins) :
                              /\ origins[j].originalKey = nodeKey(flowNodes[i])
                              /\ origins[j].node.buildingId = flowNodes[i].buildingId
                              /\ IsOre(i) => origins[j].sourceIndex = j - 1
        /\ NodesExpanded =>
               /\ DOMAIN nodeKeyToExpandedIndexes =
                      {nodeKey(flowNodes[i]) : i \in 1..Len(flowNodes)}
               /\ \A k1, k2 \in DOMAIN nodeKeyToExpandedIndexes :
                      k1 # k2 =>
                          Range(nodeKeyToExpandedIndexes[k1])
                              \cap Range(nodeKeyToExpandedIndexes[k2]) = {}
               /\ \A k \in DOMAIN nodeKeyToExpandedIndexes :
                      Cardinality(Range(nodeKeyToExpandedIndexes[k])) =
                          Len(nodeKeyToExpandedIndexes[k])
               /\ UNION {Range(nodeKeyToExpandedIndexes[k]) :
                             k \in DOMAIN nodeKeyToExpandedIndexes} =
                      0..(Len(expandedNodes) - 1)

C8_Witness ==
    /\ NodesExpanded
    /\ KeysDistinct
    /\ Len(flowNodes) = 2
    /\ ~IsOre(1)
    /\ IsOre(2) /\ OriginCount(flowNodes[2]) = 2
    /\ nodeKeyToExpandedIndexes[nodeKey(flowNodes[1])] = <<0>>
    /\ nodeKeyToExpandedIndexes[nodeKey(flowNodes[2])] = <<1, 2>>

(***************************************************************************)
(* C9.  Outgoing flow per source expansion.                                *)
(***************************************************************************)
\* The sum of the amounts of the edges es, added in their order.
Amounts(es) == SumSeq([k \in 1..Len(es) |-> es[k].amount])

BaseOutgoing(i) ==
    LET leaves(e) == e.from = nodeKey(flowNodes[i])
    IN  Amounts(SelectSeq(flowEdges, leaves))

BaseOutgoingWithinThroughput ==
    \A i \in 1..Len(flowNodes) : Leq(BaseOutgoing(i), Throughput(flowNodes[i]))

FinalOutgoing(m) ==
    LET leaves(e) == e.source = "node_" \o ToString(m - 1)
    IN  Amounts(SelectSeq(result.edges, leaves))

NoFlowFromIdleNodes ==
    \A a \in 1..Len(result.edges) :
        Gt(result.edges[a].amount, Zero) =>
            \A m \in 1..Len(result.nodes) :
                result.edges[a].source = result.nodes[m].id =>
                    result.nodes[m].node.buildingCount # Zero

OutgoingWithinThroughput ==
    /\ \A m \in 1..Len(result.nodes) :
           Leq(FinalOutgoing(m), Throughput(result.nodes[m].node))
    /\ NoFlowFromIdleNodes

OutgoingNearlyWithinThroughput ==
    /\ \A m \in 1..Len(result.nodes) :
           LET outgoing == FinalOutgoing(m)
               throughput == Throughput(result.nodes[m].node)
           IN  Leq(outgoing, throughput) \/ Near(outgoing, throughput)
    /\ NoFlowFromIdleNodes

\* C9 as claimed: when the amounts of the base edges leaving each base node
\* sum to at most its throughput, the amounts of the returned edges leaving
\* each returned node sum to at most its throughput, and no edge with a
\* positive amount leaves a node whose buildingCount is 0.
C9_OutgoingWithinThroughput ==
    pc = "done" /\ BaseOutgoingWithinThroughput => OutgoingWithinThroughput

AllRatesPositive ==
    \A i \in 1..Len(flowNodes) :
        IsOre(i) => PositiveOrigins(i) = OriginCount(flowNodes[i])

SingleTargets ==
    \A j \in 1..Len(flowEdges) : Len(ToIndexes(flowEdges[j])) <= 1

\* C9 amended: the same, provided also that every origin of every
\* ore_excavator base node has a positive rate and that the to-key of no base
\* edge has more than one expansion, with a sum that exceeds the throughput by
\* no more than the rounding of the arithmetic.
C9_OutgoingOfPositiveOrigins ==
    pc = "done" /\ BaseOutgoingWithinThroughput /\ AllRatesPositive
                /\ SingleTargets
        => OutgoingNearlyWithinThroughput

C9_Witness ==
    /\ pc = "done"
    /\ BaseOutgoingWithinThroughput /\ AllRatesPositive /\ SingleTargets
    /\ \E m \in 1..Len(result.nodes) :
           /\ "sourceCount" \in DOMAIN expandedNodes[m]
           /\ expandedNodes[m].sourceCount = 3
           /\ Gt(FinalOutgoing(m), Throughput(result.nodes[m].node))
           /\ Near(FinalOutgoing(m), Throughput(result.nodes[m].node))

(***************************************************************************)
(* C10.  The duplicate check only removes replicas of repeated base edges. *)
(***************************************************************************)
\* The base edge an expanded edge was emitted for.
BaseOf(k) ==
    CHOOSE j \in 1..Len(flowEdges) :
        FanOffset(j) < k /\ k <= FanOffset(j) + FanCount(flowEdges[j])

BaseTriple(edge) == <<edge.from, edge.to, edge.itemId>>

EdgesDistinct ==
    \A a, b \in 1..Len(flowEdges) :
        BaseTriple(flowEdges[a]) = BaseTriple(flowEdges[b]) => a = b

\* C10: when the keys of the base nodes are pairwise distinct, an expanded
\* edge is discarded only if an earlier base edge has the from-key, to-key and
\* item id of its base edge; so when the base edges are pairwise distinct in
\* these, nothing is discarded, the returned graph has the sum over the base
\* edges of |fromIndexes| x |toIndexes| edges, and the source and the target
\* of each are ids of returned nodes.
C10_OnlyReplicasDiscarded ==
    KeysDistinct /\ EdgesDistributed =>
        /\ Len(expandedEdges) = FanOffset(Len(flowEdges) + 1)
        /\ \A d \in 1..Len(discarded) :
               /\ discarded[d] + 1 \in 1..Len(expandedEdges)
               /\ \E j \in 1..(BaseOf(discarded[d] + 1) - 1) :
                      BaseTriple(flowEdges[j]) =
                          BaseTriple(flowEdges[BaseOf(discarded[d] + 1)])
        /\ pc = "done" =>
               /\ Len(result.edges) + Len(discarded) = Len(expandedEdges)
               /\ \A a \in 1..Len(result.edges) :
                      /\ \E m \in 1..Len(result.nodes) :
                             result.nodes[m].id = result.edges[a].source
                      /\ \E m \in 1..Len(result.nodes) :
                             result.nodes[m].id = result.edges[a].target
               /\ EdgesDistinct =>
                      /\ Len(discarded) = 0
                      /\ Len(result.edges) = FanOffset(Len(flowEdges) + 1)

C10_Witness ==
    /\ pc = "done"
    /\ KeysDistinct /\ EdgesDistinct
    /\ Len(flowEdges) = 2
    /\ flowEdges[1].from = flowEdges[2].from
    /\ flowEdges[1].to = flowEdges[2].to
    /\ Len(FromIndexes(flowEdges[1])) = 2
    /\ Len(result.edges) = 4
    /\ Len(discarded) = 0
====
